---- MODULE Spec2Model ----
(***************************************************************************)
(* Model of the metalibm code-generation slice:                            *)
(*   - CodeEntity          (metalibm_core/code_generation/code_entity.py)  *)
(*   - ComplexOperator     (code_generation/complex_generator.py)          *)
(*   - rv64CCodeGenTable and lowerConversion                               *)
(*                         (metalibm_core/targets/riscv/riscv.py)          *)
(* SpecDecl, SpecInputs, SpecStage, SpecComponent and SpecDefinition drive *)
(* one CodeEntity through the methods that touch the fields in question;   *)
(* SpecGen drives generation requests through ComplexOperator.             *)
(***************************************************************************)
EXTENDS Integers, Sequences, FiniteSets, TLC

VARIABLES
    \* ---- CodeEntity fields (code_entity.py:28-39)
    name,               \* self.name
    arg_list,           \* self.arg_list : sequence of input nodes
    arg_map,            \* self.arg_map  : tag -> input node
    output_map,         \* self.output_map : insertion-ordered name -> ReferenceAssign
    process_list,       \* self.process_list
    current_stage,      \* self.current_stage
    init_stage_default, \* self.init_stage_attribute.default_value
    component_object,   \* self.component_object
    ret,                \* last method called on the entity, its arguments and outcome
    \* ---- generation request state (code generator, code object, node arena)
    arena,              \* all operation nodes built so far, indexed by identity
    memo,               \* generation cache of the code object: node identity -> reference
    emitted,            \* statements emitted into the code object
    tmpCount,           \* number of temporaries allocated in the code object
    gen                 \* last generation request: what was asked, its trace and outcome

entityVars == <<name, arg_list, arg_map, output_map, process_list, current_stage,
                init_stage_default, component_object, ret>>
genVars == <<arena, memo, emitted, tmpCount, gen>>
vars == <<entityVars, genVars>>

----------------------------------------------------------------------------
\* Bounds of the model
MaxInputs == 2
MaxStage == 3
MaxProcs == 1
MaxArena == 8

\* Python's None
None == [none |-> TRUE]

EntityNames == {"foo", "adder"}
Tags == {"a", "b"}
OutNames == {"s", "t"}
Formats == {"ML_Binary32", "ML_Binary64"}
Languages == {"VHDL_Code", "C_Code"}
VHDL_Code == "VHDL_Code"

\* AbstractVariable.Input / AbstractVariable.Output
Input == "Input"
Output == "Output"

\* ML_Format.get_code_name(language): the format's name in the target language
get_code_name(fmt, language) ==
    IF language = VHDL_Code
      THEN (IF fmt = "ML_Binary32" THEN "F32" ELSE "F64")
      ELSE (IF fmt = "ML_Binary32" THEN "float" ELSE "double")

\* Variable(name, precision = vartype)
Variable(id, tag, precision, var_type) ==
    [id |-> id, cls |-> "Variable", tag |-> tag, precision |-> precision,
     var_type |-> var_type]

\* Signal(name, precision = signaltype)
Signal(id, tag, precision, var_type) ==
    [id |-> id, cls |-> "Signal", tag |-> tag, precision |-> precision,
     var_type |-> var_type]

\* ReferenceAssign(output_var, output_node): input 0 is the port, input 1 the value
ReferenceAssign(port, value) == [port |-> port, value |-> value]

\* The value nodes handed to add_output_* by the caller
OutputNodes ==
    { [id |-> -1, cls |-> "Op", tag |-> "v1", precision |-> "ML_Binary32"],
      [id |-> -2, cls |-> "Op", tag |-> "v2", precision |-> "ML_Binary64"] }

\* Processes handed to add_process
Processes == {"p1", "p2"}

----------------------------------------------------------------------------
\* Helpers on sequences and on the insertion-ordered dictionary output_map

RECURSIVE Join(_, _)
\* str.join: sep.join(list)
Join(sep, list) ==
    IF Len(list) = 0 THEN ""
    ELSE IF Len(list) = 1 THEN list[1]
    ELSE list[1] \o sep \o Join(sep, Tail(list))

Range(s) == {s[i] : i \in 1..Len(s)}

\* name in self.output_map
OutHasKey(om, n) == \E i \in 1..Len(om) : om[i].name = n

\* self.output_map[name]
OutGet(om, n) == om[CHOOSE i \in 1..Len(om) : om[i].name = n].assign

\* self.output_map[name] = assign : a new key goes last, an existing key keeps its place
OutSet(om, n, assign) ==
    IF OutHasKey(om, n)
      THEN [i \in 1..Len(om) |-> IF om[i].name = n
                                   THEN [name |-> n, assign |-> assign] ELSE om[i]]
      ELSE Append(om, [name |-> n, assign |-> assign])

\* arg_map[tag] = node
MapSet(m, k, v) == [x \in (DOMAIN m) \cup {k} |-> IF x = k THEN v ELSE m[x]]

\* dict((arg.get_tag(), arg) for arg in arg_list): a later element wins
RECURSIVE MapOfArgs(_)
MapOfArgs(list) ==
    IF Len(list) = 0 THEN << >>
    ELSE MapSet(MapOfArgs(SubSeq(list, 1, Len(list) - 1)),
                list[Len(list)].tag, list[Len(list)])

----------------------------------------------------------------------------
\* CodeEntity: pure accessors

get_port_from_output(out) == out.port
get_value_from_output(out) == out.value
get_output_assign == [i \in 1..Len(output_map) |-> output_map[i].assign]
get_output_port ==
    [i \in 1..Len(output_map) |-> get_port_from_output(get_output_assign[i])]
get_output_list ==
    [i \in 1..Len(output_map) |-> get_value_from_output(get_output_assign[i])]
get_arg_list == arg_list

\* get_output_precision: the port's format, or the value's when the port has none
get_output_precision(out) ==
    IF get_port_from_output(out).precision = "None"
      THEN get_value_from_output(out).precision
      ELSE get_port_from_output(out).precision

\* get_scheme: Statement(process_list + output assignments)
get_scheme == [cls |-> "Statement",
               inputs |-> [i \in 1..Len(process_list) |-> [process |-> process_list[i]]]
                          \o [i \in 1..Len(output_map) |->
                                 [assign |-> get_output_assign[i]]]]

\* get_declaration without the empty-port test
get_declaration_always_port(language) ==
    LET lang == IF language = "None" THEN VHDL_Code ELSE language
        input_port_list ==
            [i \in 1..Len(arg_list) |->
                arg_list[i].tag \o " : in "
                \o get_code_name(arg_list[i].precision, lang)]
        output_port_list ==
            [i \in 1..Len(output_map) |->
                get_port_from_output(get_output_assign[i]).tag \o " : out "
                \o get_code_name(get_output_precision(get_output_assign[i]), lang)]
        port_format_list == Join(";\n  ", input_port_list \o output_port_list)
        port_desc == "port (\n  " \o port_format_list \o "\n);"
    IN "entity " \o name \o " is \n" \o port_desc \o "\nend " \o name \o ";\n\n"

\* get_declaration(final, language)
get_declaration(language) ==
    LET lang == IF language = "None" THEN VHDL_Code ELSE language
        input_port_list ==
            [i \in 1..Len(arg_list) |->
                arg_list[i].tag \o " : in "
                \o get_code_name(arg_list[i].precision, lang)]
        output_port_list ==
            [i \in 1..Len(output_map) |->
                get_port_from_output(get_output_assign[i]).tag \o " : out "
                \o get_code_name(get_output_precision(get_output_assign[i]), lang)]
        port_format_list == Join(";\n  ", input_port_list \o output_port_list)
        port_desc == IF Len(port_format_list) = 0
                       THEN ""
                       ELSE "port (\n  " \o port_format_list \o "\n);"
    IN "entity " \o name \o " is \n" \o port_desc \o "\nend " \o name \o ";\n\n"

\* build_component_object: io_map over the current ports, and a back-reference
build_component_object ==
    LET ins == Range(arg_list)
        outs == Range(get_output_port)
    IN [name |-> name,
        io_map |-> [n \in ins \cup outs |-> IF n \in outs THEN Output ELSE Input],
        entity |-> "self"]

----------------------------------------------------------------------------
\* CodeEntity: constructor

\* Inputs the constructor may be given (distinct tags)
CtorArgLists ==
    { << >>, << Signal(1, "a", "ML_Binary32", Input) >> }

\* Output maps the constructor may be given; the port of the second has no format
CtorOutputMaps ==
    { << >>,
      << [name |-> "s",
          assign |-> ReferenceAssign(Signal(2, "s", "None", Output),
                                     CHOOSE v \in OutputNodes : v.tag = "v2")] >> }

EntityInit ==
    /\ name \in EntityNames
    /\ arg_list \in CtorArgLists
    /\ arg_map = MapOfArgs(arg_list)
    /\ output_map \in CtorOutputMaps
    /\ process_list = << >>
    /\ current_stage = 0
    /\ init_stage_default = current_stage
    /\ component_object = None
    /\ ret = [op |-> "__init__"]


----------------------------------------------------------------------------
\* Object identity: a constructor call yields an object distinct from every
\* object the entity still refers to

LiveIds ==
    {arg_list[i].id : i \in 1..Len(arg_list)}
    \cup {arg_map[t].id : t \in DOMAIN arg_map}
    \cup {get_output_port[i].id : i \in 1..Len(output_map)}
    \cup (IF component_object = None THEN {}
          ELSE {n.id : n \in DOMAIN component_object.io_map})

FreshId == CHOOSE i \in 1..(Cardinality(LiveIds) + 1) : i \notin LiveIds

\* Log.report(level, msg): an error-level report raises and ends the call
Log_report(level, msg) ==
    IF level = "error"
      THEN [raised |-> TRUE, error |-> "DuplicateOutputNameError", msg |-> msg]
      ELSE [raised |-> FALSE]

----------------------------------------------------------------------------
\* CodeEntity: port registration

add_input_variable(n, vartype) ==
    LET input_var == Variable(FreshId, n, vartype, Input)
    IN /\ Len(arg_list) < MaxInputs
       /\ arg_list' = Append(arg_list, input_var)
       /\ arg_map' = MapSet(arg_map, n, input_var)
       /\ ret' = [op |-> "add_input_variable", val |-> input_var]
       /\ UNCHANGED <<name, output_map, process_list, current_stage,
                      init_stage_default, component_object, genVars>>

add_input_signal(n, signaltype) ==
    LET input_signal == Signal(FreshId, n, signaltype, Input)
    IN /\ Len(arg_list) < MaxInputs
       /\ arg_list' = Append(arg_list, input_signal)
       /\ arg_map' = MapSet(arg_map, n, input_signal)
       /\ ret' = [op |-> "add_input_signal", val |-> input_signal]
       /\ UNCHANGED <<name, output_map, process_list, current_stage,
                      init_stage_default, component_object, genVars>>

add_output_variable(n, output_node) ==
    LET output_var == Variable(FreshId, n, output_node.precision, Output)
        output_assign == ReferenceAssign(output_var, output_node)
        report == IF OutHasKey(output_map, n)
                    THEN Log_report("error", "pre-existing name " \o n \o " in output_map")
                    ELSE [raised |-> FALSE]
    IN /\ IF report.raised
            THEN /\ output_map' = output_map
                 /\ ret' = [op |-> "add_output_variable", name |-> n,
                            raised |-> TRUE, error |-> report.error, msg |-> report.msg]
            ELSE /\ output_map' = OutSet(output_map, n, output_assign)
                 /\ ret' = [op |-> "add_output_variable", name |-> n,
                            raised |-> FALSE, assign |-> output_assign]
       /\ UNCHANGED <<name, arg_list, arg_map, process_list, current_stage,
                      init_stage_default, component_object, genVars>>

\* add_output_signal without the test for a pre-existing name
add_output_signal_unchecked(n, output_node) ==
    LET output_var == Signal(FreshId, n, output_node.precision, Output)
        output_assign == ReferenceAssign(output_var, output_node)
    IN /\ output_map' = OutSet(output_map, n, output_assign)
       /\ ret' = [op |-> "add_output_signal", name |-> n,
                  raised |-> FALSE, assign |-> output_assign]
       /\ UNCHANGED <<name, arg_list, arg_map, process_list, current_stage,
                      init_stage_default, component_object, genVars>>

add_output_signal(n, output_node) ==
    LET output_var == Signal(FreshId, n, output_node.precision, Output)
        output_assign == ReferenceAssign(output_var, output_node)
        report == IF OutHasKey(output_map, n)
                    THEN Log_report("error", "pre-existing name " \o n \o " in output_map")
                    ELSE [raised |-> FALSE]
    IN /\ IF report.raised
            THEN /\ output_map' = output_map
                 /\ ret' = [op |-> "add_output_signal", name |-> n,
                            raised |-> TRUE, error |-> report.error, msg |-> report.msg]
            ELSE /\ output_map' = OutSet(output_map, n, output_assign)
                 /\ ret' = [op |-> "add_output_signal", name |-> n,
                            raised |-> FALSE, assign |-> output_assign]
       /\ UNCHANGED <<name, arg_list, arg_map, process_list, current_stage,
                      init_stage_default, component_object, genVars>>

\* get_input_by_tag: the arg_map entry, or None
get_input_by_tag(tag) == IF tag \in DOMAIN arg_map THEN arg_map[tag] ELSE None

GetInputByTag(tag) ==
    /\ ret' = [op |-> "get_input_by_tag", tag |-> tag, val |-> get_input_by_tag(tag)]
    /\ UNCHANGED <<name, arg_list, arg_map, output_map, process_list, current_stage,
                   init_stage_default, component_object, genVars>>

register_new_input_variable(new_input) ==
    /\ Len(arg_list) < MaxInputs
    /\ arg_list' = Append(arg_list, new_input)
    /\ ret' = [op |-> "register_new_input_variable", val |-> new_input]
    /\ UNCHANGED <<name, arg_map, output_map, process_list, current_stage,
                   init_stage_default, component_object, genVars>>

clear_arg_list ==
    /\ arg_list' = << >>
    /\ ret' = [op |-> "clear_arg_list"]
    /\ UNCHANGED <<name, arg_map, output_map, process_list, current_stage,
                   init_stage_default, component_object, genVars>>

add_process(new_process) ==
    /\ Len(process_list) < MaxProcs
    /\ process_list' = Append(process_list, new_process)
    /\ ret' = [op |-> "add_process"]
    /\ UNCHANGED <<name, arg_list, arg_map, output_map, current_stage,
                   init_stage_default, component_object, genVars>>

----------------------------------------------------------------------------
\* CodeEntity: pipeline stage

set_current_stage(stage_id) ==
    /\ current_stage' = stage_id
    /\ init_stage_default' = current_stage'
    /\ UNCHANGED <<name, arg_list, arg_map, output_map, process_list, component_object,
                   genVars>>

SetCurrentStage(stage_id) ==
    /\ set_current_stage(stage_id)
    /\ ret' = [op |-> "set_current_stage", stage_id |-> stage_id]

\* start_new_stage calling set_current_stage() with its default argument
start_new_stage_default ==
    /\ current_stage < MaxStage
    /\ set_current_stage(0)
    /\ ret' = [op |-> "start_new_stage"]

start_new_stage ==
    /\ current_stage < MaxStage
    /\ set_current_stage(current_stage + 1)
    /\ ret' = [op |-> "start_new_stage"]

----------------------------------------------------------------------------
\* CodeEntity: component descriptor

get_component_object ==
    /\ component_object' = IF component_object = None
                             THEN build_component_object
                             ELSE component_object
    /\ ret' = [op |-> "get_component_object", val |-> component_object',
               built |-> (component_object = None)]
    /\ UNCHANGED <<name, arg_list, arg_map, output_map, process_list, current_stage,
                   init_stage_default, genVars>>

GetDeclaration(language) ==
    /\ ret' = [op |-> "get_declaration", language |-> language,
               val |-> get_declaration(language)]
    /\ UNCHANGED <<name, arg_list, arg_map, output_map, process_list, current_stage,
                   init_stage_default, component_object, genVars>>


----------------------------------------------------------------------------
\* NestedCode: the scoped code object, as the sequence of calls made on it and
\* its current nesting level

NestedCode == [log |-> << >>, level |-> 0]

add_local_header(co, header) ==
    [co EXCEPT !.log = Append(@, [op |-> "add_local_header", arg |-> header])]

\* code_object << text
Emit(co, text) == [co EXCEPT !.log = Append(@, [op |-> "emit", arg |-> text])]

open_level(co) ==
    [co EXCEPT !.log = Append(@, [op |-> "open_level", arg |-> ""]), !.level = @ + 1]

close_level(co) ==
    [co EXCEPT !.log = Append(@, [op |-> "close_level", arg |-> ""]), !.level = @ - 1]

\* code_generator.generate_expr(code_object, scheme, ...) on the entity's body,
\* when it succeeds
GenerateBody(co, scheme) ==
    [co EXCEPT !.log = Append(@, [op |-> "generate_expr", arg |-> "scheme",
                                  scheme |-> scheme])]

\* Code objects a caller may hand to add_definition
CallerCodeObjects ==
    { NestedCode, open_level(add_local_header(NestedCode, "ieee.std_logic_1164.all")) }

----------------------------------------------------------------------------
\* CodeEntity: definition

\* get_definition that leaves the scope open
get_definition_unclosed(language, bodyOk) ==
    LET c1 == add_local_header(NestedCode, "ieee.std_logic_1164.all")
        c2 == add_local_header(c1, "ieee.std_logic_unsigned.all")
        c3 == add_local_header(c2, "ieee.numeric_std.all")
        c4 == Emit(c3, get_declaration(language))
        c5 == open_level(c4)
        c6 == GenerateBody(c5, get_scheme)
    IN /\ ret' = IF bodyOk
                   THEN [op |-> "get_definition", language |-> language,
                         raised |-> FALSE, val |-> c6]
                   ELSE [op |-> "get_definition", language |-> language,
                         raised |-> TRUE, val |-> c5]
       /\ UNCHANGED <<name, arg_list, arg_map, output_map, process_list, current_stage,
                      init_stage_default, component_object, genVars>>

\* get_definition: bodyOk is whether generation of the body succeeds
get_definition(language, bodyOk) ==
    LET c1 == add_local_header(NestedCode, "ieee.std_logic_1164.all")
        c2 == add_local_header(c1, "ieee.std_logic_unsigned.all")
        c3 == add_local_header(c2, "ieee.numeric_std.all")
        c4 == Emit(c3, get_declaration(language))
        c5 == open_level(c4)
        c6 == GenerateBody(c5, get_scheme)
        c7 == close_level(c6)
    IN /\ ret' = IF bodyOk
                   THEN [op |-> "get_definition", language |-> language,
                         raised |-> FALSE, val |-> c7]
                   ELSE [op |-> "get_definition", language |-> language,
                         raised |-> TRUE, val |-> c5]
       /\ UNCHANGED <<name, arg_list, arg_map, output_map, process_list, current_stage,
                      init_stage_default, component_object, genVars>>

\* add_definition: writes into the caller's code object
add_definition(language, code_object, bodyOk) ==
    LET c1 == Emit(code_object, get_declaration(language))
        c2 == Emit(c1, "architecture rtl of " \o name \o " is\n")
        c3 == open_level(c2)
        c4 == GenerateBody(c3, get_scheme)
        c5 == close_level(c4)
        c6 == Emit(c5, "end architecture;\n")
    IN /\ ret' = IF bodyOk
                   THEN [op |-> "add_definition", language |-> language,
                         arg |-> code_object, raised |-> FALSE, val |-> c6]
                   ELSE [op |-> "add_definition", language |-> language,
                         arg |-> code_object, raised |-> TRUE, val |-> c3]
       /\ UNCHANGED <<name, arg_list, arg_map, output_map, process_list, current_stage,
                      init_stage_default, component_object, genVars>>

----------------------------------------------------------------------------
\* Operation nodes.  A node is referred to by its identity, its index in the
\* arena; NoNode stands for Python's None where a node is expected.

NoNode == 0

Node(kind, specifier, inputs, precision) ==
    [kind |-> kind, specifier |-> specifier, inputs |-> inputs, precision |-> precision]

\* Conversion(op, precision = fmt)
Conversion(op, precision) == Node("Conversion", "None", <<op>>, precision)

\* optree.get_input(0)
get_input(ar, optree, i) == ar[optree].inputs[i + 1]

\* The state a generation request works on: node arena, code object (cache,
\* emitted statements, temporaries) and the trace of calls made so far
GenState(ar, mm, em, tc, tr) ==
    [arena |-> ar, memo |-> mm, emitted |-> em, tmpCount |-> tc, trace |-> tr]

Traced(st, event) == [st EXCEPT !.trace = Append(@, event)]

Failure(st, err) == [st |-> st, ok |-> FALSE, ref |-> None, err |-> err]
Success(st, ref) == [st |-> st, ok |-> TRUE, ref |-> ref, err |-> "none"]

----------------------------------------------------------------------------
\* riscv.py: lowerConversion and the rv64 C table

\* lowerConversion(intFormat, targetFormat): the closure it returns
lowerConversion(intFormat, targetFormat) ==
    [fn |-> "lowerConversion", intFormat |-> intFormat, targetFormat |-> targetFormat]

\* A modifier that returns None for every node
returnsNone == [fn |-> "returnsNone"]

\* modifier(conv) with the two formats exchanged
lowerConversion_modifier_swapped(mod, ar, conv) ==
    LET op == get_input(ar, conv, 0)
        inner == Conversion(op, mod.targetFormat)
        ar1 == Append(ar, inner)
        outer == Conversion(Len(ar1), mod.intFormat)
        ar2 == Append(ar1, outer)
    IN [arena |-> ar2, node |-> Len(ar2)]

\* modifier(conv) of lowerConversion: two new nodes, the inner one first
lowerConversion_modifier(mod, ar, conv) ==
    LET op == get_input(ar, conv, 0)
        inner == Conversion(op, mod.intFormat)
        ar1 == Append(ar, inner)
        outer == Conversion(Len(ar1), mod.targetFormat)
        ar2 == Append(ar1, outer)
    IN [arena |-> ar2, node |-> Len(ar2)]

\* self.optree_modifier(optree)
ApplyModifier(mod, ar, optree) ==
    IF mod.fn = "lowerConversion"
      THEN lowerConversion_modifier(mod, ar, optree)
      ELSE [arena |-> ar, node |-> NoNode]

\* ComplexOperator.__init__
ComplexOperator(optree_modifier, backup_operator) ==
    [type |-> "ComplexOperator", optree_modifier |-> optree_modifier,
     backup_operator |-> backup_operator]

\* AsmInlineOperator(template, arg_map, arity)
AsmInlineOperator(insn, arity) == [type |-> "AsmInlineOperator", fn |-> insn, arity |-> arity]

rdcycleOperator == AsmInlineOperator("rdcycle", 0)

RV_singleOpAsmTemplate(insn) == AsmInlineOperator(insn, 1)

\* type_strict_match(result, operands...)
type_strict_match(formats) == formats

\* rv64CCodeGenTable: kind -> sub-specifier -> list of (shape predicate, signature map)
rv64CCodeGenTable ==
    [k \in {"SpecificOperation", "NearestInteger"} |->
       IF k = "SpecificOperation"
         THEN [sp \in {"ReadTimeStamp"} |->
                << [pred |-> "True",
                    sigs |-> << [sig |-> type_strict_match(<<"ML_Int64">>),
                                 tpl |-> rdcycleOperator] >>] >>]
         ELSE [sp \in {"None"} |->
                << [pred |-> "True",
                    sigs |->
                      << [sig |-> type_strict_match(<<"ML_Int32", "ML_Binary32">>),
                          tpl |-> RV_singleOpAsmTemplate("fcvt.w.s")],
                         [sig |-> type_strict_match(<<"ML_Binary32", "ML_Binary32">>),
                          tpl |-> ComplexOperator(
                                     lowerConversion("ML_Int32", "ML_Binary32"), None)],
                         [sig |-> type_strict_match(<<"ML_Int64", "ML_Binary64">>),
                          tpl |-> RV_singleOpAsmTemplate("fcvt.l.d")],
                         [sig |-> type_strict_match(<<"ML_Int32", "ML_Binary64">>),
                          tpl |-> ComplexOperator(
                                     lowerConversion("ML_Int64", "ML_Int32"), None)],
                         [sig |-> type_strict_match(<<"ML_Binary64", "ML_Binary64">>),
                          tpl |-> ComplexOperator(
                                     lowerConversion("ML_Int64", "ML_Binary64"), None)]
                      >>] >>]]

----------------------------------------------------------------------------
\* Templates and table entries of the enclosing backend

\* A plain template: renders a call of fn
DirectOperator(fn) == [type |-> "DirectOperator", fn |-> fn]

\* The generic C table's Conversion entry: a plain call for every pair of formats
GenericConversionEntry ==
    [sp \in {"None"} |->
       << [pred |-> "True",
           sigs |-> << [sig |-> <<"any">>, tpl |-> DirectOperator("conv")] >>] >>]

\* Rewrite templates a table author can build from ComplexOperator.__init__:
\* every combination of a modifier that returns nothing or a replacement with
\* no fallback, a plain fallback, or a fallback that is itself a rewrite
RewriteTemplates ==
    [k \in {"RwNone", "RwNoneBackup", "RwNoneChain", "RwNoneChainNone",
            "RwNoneChainLower", "RwLowerBackup"} |->
       CASE k = "RwNone" -> ComplexOperator(returnsNone, None)
         [] k = "RwNoneBackup" ->
              ComplexOperator(returnsNone, DirectOperator("backup_fn"))
         [] k = "RwNoneChain" ->
              ComplexOperator(returnsNone,
                  ComplexOperator(returnsNone, DirectOperator("backup_fn")))
         [] k = "RwNoneChainNone" ->
              ComplexOperator(returnsNone, ComplexOperator(returnsNone, None))
         [] k = "RwNoneChainLower" ->
              ComplexOperator(returnsNone,
                  ComplexOperator(lowerConversion("ML_Int64", "ML_Binary64"), None))
         [] k = "RwLowerBackup" ->
              ComplexOperator(lowerConversion("ML_Int64", "ML_Binary64"),
                              DirectOperator("backup_fn"))]

\* The table a generation request runs under: the rv64 table over the generic
\* entries, plus one kind per rewrite template
CodeGenTable ==
    [k \in (DOMAIN rv64CCodeGenTable) \cup {"Conversion"} \cup (DOMAIN RewriteTemplates) |->
       IF k \in DOMAIN rv64CCodeGenTable THEN rv64CCodeGenTable[k]
       ELSE IF k = "Conversion" THEN GenericConversionEntry
       ELSE [sp \in {"None"} |->
               << [pred |-> "True",
                   sigs |-> << [sig |-> <<"any">>, tpl |-> RewriteTemplates[k]] >>] >>]]

\* The node's format tuple: result format, then operand formats
Signature(ar, n) ==
    <<ar[n].precision>> \o [i \in 1..Len(ar[n].inputs) |-> ar[ar[n].inputs[i]].precision]

\* Operator resolution: kind, sub-specifier, first true shape predicate, the
\* signature entry that accepts the node's formats; NoTemplate when unresolved
NoTemplate == [type |-> "unresolved"]

resolve(ar, n, table) ==
    IF ar[n].kind \notin DOMAIN table THEN NoTemplate
    ELSE IF ar[n].specifier \notin DOMAIN table[ar[n].kind] THEN NoTemplate
    ELSE LET entries == table[ar[n].kind][ar[n].specifier]
             hits == {i \in 1..Len(entries) : entries[i].pred = "True"}
         IN IF hits = {} THEN NoTemplate
            ELSE LET e == entries[CHOOSE i \in hits : \A j \in hits : i <= j]
                     ok == {i \in 1..Len(e.sigs) :
                              \/ e.sigs[i].sig = <<"any">>
                              \/ e.sigs[i].sig = Signature(ar, n)}
                 IN IF ok = {} THEN NoTemplate
                    ELSE e.sigs[CHOOSE i \in ok : \A j \in ok : i <= j].tpl

----------------------------------------------------------------------------
\* Generation: the engine (code_generator.generate_expr), template rendering and
\* ComplexOperator.generate_expr call one another

RECURSIVE code_generator_generate_expr(_, _)
RECURSIVE Operator_generate_expr(_, _, _, _)
RECURSIVE GenerateOperands(_, _, _)

\* Rendering of a plain or inline-instruction template: a fresh temporary of the
\* node's format receives the rendered statement
Render(tpl, st, optree, arg_tuple) ==
    IF optree = NoNode THEN Failure(st, "MissingNode")
    ELSE IF tpl.type = "AsmInlineOperator" /\ tpl.arity # Len(arg_tuple)
      THEN Failure(st, "TemplateArityMismatch")
    ELSE LET tmp == [tmp |-> st.tmpCount + 1]
             stmt == [dst |-> tmp, fn |-> tpl.fn, args |-> arg_tuple,
                      precision |-> st.arena[optree].precision]
         IN Success([st EXCEPT !.tmpCount = @ + 1, !.emitted = Append(@, stmt)], tmp)

\* ComplexOperator.generate_expr that never uses the backup operator
ComplexOperator_generate_expr_no_backup(self, st, optree, arg_tuple) ==
    LET m == ApplyModifier(self.optree_modifier, st.arena, optree)
        new_optree == m.node
        st1 == Traced([st EXCEPT !.arena = m.arena],
                      [ev |-> "modifier", op |-> self, node |-> optree,
                       result |-> new_optree])
    IN code_generator_generate_expr(st1, new_optree)

\* ComplexOperator.generate_expr that prefers the backup operator when there is one
ComplexOperator_generate_expr_backup_first(self, st, optree, arg_tuple) ==
    LET m == ApplyModifier(self.optree_modifier, st.arena, optree)
        new_optree == m.node
        st1 == Traced([st EXCEPT !.arena = m.arena],
                      [ev |-> "modifier", op |-> self, node |-> optree,
                       result |-> new_optree])
    IN IF self.backup_operator # None
         THEN Operator_generate_expr(self.backup_operator, st1, optree, arg_tuple)
         ELSE code_generator_generate_expr(st1, new_optree)

\* ComplexOperator.generate_expr(code_generator, code_object, optree, arg_tuple)
ComplexOperator_generate_expr(self, st, optree, arg_tuple) ==
    LET m == ApplyModifier(self.optree_modifier, st.arena, optree)
        new_optree == m.node
        st1 == Traced([st EXCEPT !.arena = m.arena],
                      [ev |-> "modifier", op |-> self, node |-> optree,
                       result |-> new_optree])
    IN IF new_optree = NoNode /\ self.backup_operator # None
         THEN Operator_generate_expr(self.backup_operator, st1, optree, arg_tuple)
         ELSE code_generator_generate_expr(st1, new_optree)

\* operator.generate_expr(...): the method of the template's class
Operator_generate_expr(tpl, st, optree, arg_tuple) ==
    LET st1 == Traced(st, [ev |-> "operator", op |-> tpl, node |-> optree,
                           args |-> arg_tuple])
    IN IF tpl.type = "ComplexOperator"
         THEN ComplexOperator_generate_expr(tpl, st1, optree, arg_tuple)
         ELSE Render(tpl, st1, optree, arg_tuple)

\* Operands in declaration order; the first failure aborts
GenerateOperands(st, inputs, refs) ==
    IF Len(inputs) = 0 THEN [st |-> st, ok |-> TRUE, refs |-> refs, err |-> "none"]
    ELSE LET r == code_generator_generate_expr(st, Head(inputs))
         IN IF r.ok
              THEN GenerateOperands(r.st, Tail(inputs), Append(refs, r.ref))
              ELSE [st |-> r.st, ok |-> FALSE, refs |-> refs, err |-> r.err]

\* code_generator.generate_expr(code_object, optree): cache hit, else operands,
\* resolution, the template's generate_expr, and the cache entry of optree
code_generator_generate_expr(st, optree) ==
    LET st1 == Traced(st, [ev |-> "generate", node |-> optree])
    IN IF optree = NoNode THEN Failure(st1, "MissingNode")
       ELSE IF optree \in DOMAIN st.memo THEN Success(st1, st.memo[optree])
       ELSE IF st.arena[optree].kind = "Variable"
         THEN Success([st1 EXCEPT !.memo = MapSet(@, optree, [var |-> optree])],
                      [var |-> optree])
       ELSE LET ops == GenerateOperands(st1, st.arena[optree].inputs, << >>)
            IN IF ~ops.ok THEN Failure(ops.st, ops.err)
               ELSE LET tpl == resolve(ops.st.arena, optree, CodeGenTable)
                        st2 == Traced(ops.st, [ev |-> "resolve", node |-> optree,
                                               op |-> tpl])
                    IN IF tpl = NoTemplate
                         THEN Failure(st2, "UnresolvedOperatorError")
                         ELSE LET r == Operator_generate_expr(tpl, st2, optree, ops.refs)
                              IN IF r.ok
                                   THEN Success([r.st EXCEPT
                                                   !.memo = MapSet(@, optree, r.ref)],
                                                r.ref)
                                   ELSE r

----------------------------------------------------------------------------
\* Generation requests

\* Operation DAGs handed over by the front end
Var(fmt) == Node("Variable", "None", << >>, fmt)

FrontEndDags ==
    { << Var("ML_Binary64"),
         Node("NearestInteger", "None", <<1>>, "ML_Binary64"),
         Node("NearestInteger", "None", <<2>>, "ML_Binary64") >>,
      << Var("ML_Binary32"),
         Node("NearestInteger", "None", <<1>>, "ML_Binary32"),
         Node("NearestInteger", "None", <<1>>, "ML_Int32"),
         Node("NearestInteger", "None", <<1>>, "ML_Int64"),
         Node("SpecificOperation", "ReadTimeStamp", << >>, "ML_Int64") >>,
      << Var("ML_Binary64"),
         Node("NearestInteger", "None", <<1>>, "ML_Int32"),
         Node("NearestInteger", "None", <<1>>, "ML_Int64"),
         Node("Conversion", "None", <<3>>, "ML_Binary64") >>,
      << Var("ML_Binary64"),
         Node("RwNone", "None", <<1>>, "ML_Binary64"),
         Node("RwNoneBackup", "None", <<1>>, "ML_Binary64"),
         Node("RwNoneChain", "None", <<1>>, "ML_Binary64") >>,
      << Var("ML_Binary64"),
         Node("RwNoneChainNone", "None", <<1>>, "ML_Binary64"),
         Node("RwNoneChainLower", "None", <<1>>, "ML_Binary64"),
         Node("RwLowerBackup", "None", <<1>>, "ML_Binary64"),
         Node("RwNoneBackup", "None", <<3>>, "ML_Binary64") >> }

GenInit ==
    /\ arena \in FrontEndDags
    /\ memo = << >>
    /\ emitted = << >>
    /\ tmpCount = 0
    /\ gen = [op |-> "none"]

\* One generation request on node n of the arena
Generate(n) ==
    LET r == code_generator_generate_expr(
                 GenState(arena, memo, emitted, tmpCount, << >>), n)
    IN /\ Len(r.st.arena) <= MaxArena
       /\ arena' = r.st.arena
       /\ memo' = r.st.memo
       /\ emitted' = r.st.emitted
       /\ tmpCount' = r.st.tmpCount
       /\ gen' = [op |-> "generate_expr", node |-> n, hit |-> (n \in DOMAIN memo),
                  ok |-> r.ok, ref |-> r.ref, err |-> r.err, trace |-> r.st.trace,
                  arenaBefore |-> Len(arena), emittedBefore |-> Len(emitted)]
       /\ UNCHANGED entityVars

\* A new generation request starts from an empty code object
NewCodeObject ==
    /\ memo' = << >>
    /\ emitted' = << >>
    /\ tmpCount' = 0
    /\ gen' = [op |-> "new_code_object"]
    /\ UNCHANGED <<arena, entityVars>>

GenNext ==
    \/ \E n \in 1..Len(arena) : Generate(n)
    \/ NewCodeObject

\* No entity is driven during a generation request
EntityIdle ==
    /\ name = "foo"
    /\ arg_list = << >>
    /\ arg_map = << >>
    /\ output_map = << >>
    /\ process_list = << >>
    /\ current_stage = 0
    /\ init_stage_default = 0
    /\ component_object = None
    /\ ret = [op |-> "__init__"]

GenSpecInit == GenInit /\ EntityIdle

SpecGen == GenSpecInit /\ [][GenNext]_vars

----------------------------------------------------------------------------
\* Generation state is idle while the entity is driven

GenIdle ==
    /\ arena = << >>
    /\ memo = << >>
    /\ emitted = << >>
    /\ tmpCount = 0
    /\ gen = [op |-> "none"]

EntitySpecInit == EntityInit /\ GenIdle

\* Port registration and the declaration text
DeclNext ==
    \/ \E n \in Tags : add_input_variable(n, "ML_Binary64")
    \/ \E n \in Tags : add_input_signal(n, "ML_Binary32")
    \/ \E n \in OutNames : add_output_variable(n, CHOOSE v \in OutputNodes : v.tag = "v2")
    \/ \E n \in OutNames : add_output_signal(n, CHOOSE v \in OutputNodes : v.tag = "v1")
    \/ \E l \in Languages \cup {"None"} : GetDeclaration(l)

SpecDecl == EntitySpecInit /\ [][DeclNext]_vars

\* Input bookkeeping
InputsNext ==
    \/ \E n \in Tags : add_input_variable(n, "ML_Binary64")
    \/ \E n \in Tags : add_input_signal(n, "ML_Binary32")
    \/ \E t \in Tags : register_new_input_variable(Variable(FreshId, t, "ML_Binary32", Input))
    \/ clear_arg_list
    \/ \E t \in Tags : GetInputByTag(t)

SpecInputs == EntitySpecInit /\ [][InputsNext]_vars

\* Pipeline stages, interleaved with port registration and add_process
StageNext ==
    \/ start_new_stage
    \/ \E s \in 0..MaxStage : SetCurrentStage(s)
    \/ \E p \in Processes : add_process(p)
    \/ add_input_signal("a", "ML_Binary32")
    \/ add_output_signal("s", CHOOSE v \in OutputNodes : v.tag = "v1")

SpecStage == EntitySpecInit /\ [][StageNext]_vars

\* Component descriptor, interleaved with port registration
ComponentNext ==
    \/ get_component_object
    \/ \E n \in Tags : add_input_signal(n, "ML_Binary32")
    \/ add_input_variable("a", "ML_Binary64")
    \/ \E n \in OutNames : add_output_signal(n, CHOOSE v \in OutputNodes : v.tag = "v1")
    \/ add_output_variable("s", CHOOSE v \in OutputNodes : v.tag = "v2")
    \/ register_new_input_variable(Variable(FreshId, "b", "ML_Binary32", Input))

SpecComponent == EntitySpecInit /\ [][ComponentNext]_vars

\* Definition text, after some ports and processes are registered
DefinitionNext ==
    \/ \E l \in Languages, ok \in BOOLEAN : get_definition(l, ok)
    \/ \E l \in Languages, co \in CallerCodeObjects, ok \in BOOLEAN :
          add_definition(l, co, ok)
    \/ \E p \in Processes : add_process(p)
    \/ \E n \in Tags : add_input_signal(n, "ML_Binary32")
    \/ \E n \in OutNames : add_output_signal(n, CHOOSE v \in OutputNodes : v.tag = "v1")

SpecDefinition == EntitySpecInit /\ [][DefinitionNext]_vars


----------------------------------------------------------------------------
\* Properties of CodeEntity

\* C1: when add_output_variable / add_output_signal is called with a name that is
\* already registered, the call fails with the duplicate-output-name error and
\* output_map[name] still holds the assignment of the first registration.
C1_DuplicateOutputRejected ==
    [][ (/\ ret'.op \in {"add_output_variable", "add_output_signal"}
         /\ OutHasKey(output_map, ret'.name))
        => (/\ ret'.raised
            /\ ret'.error = "DuplicateOutputNameError"
            /\ OutHasKey(output_map', ret'.name)
            /\ OutGet(output_map', ret'.name) = OutGet(output_map, ret'.name)
            /\ output_map' = output_map) ]_vars

C1_Witness ==
    /\ ret.op = "add_output_signal"
    /\ ret.raised
    /\ ret.name = "t"
    /\ OutGet(output_map, "t").port.cls = "Variable"

RECURSIVE C6_Joined(_)
C6_Joined(lines) ==
    IF Len(lines) = 1 THEN lines[1]
    ELSE C6_Joined(SubSeq(lines, 1, Len(lines) - 1)) \o ";\n  " \o lines[Len(lines)]

C6_FormatCode(fmt, language) ==
    get_code_name(fmt, IF language = "None" THEN "VHDL_Code" ELSE language)

C6_PortLines(language) ==
    [i \in 1..Len(arg_list) |->
        arg_list[i].tag \o " : in " \o C6_FormatCode(arg_list[i].precision, language)]
    \o [i \in 1..Len(output_map) |->
        output_map[i].name \o " : out "
        \o C6_FormatCode(IF output_map[i].assign.port.precision = "None"
                           THEN output_map[i].assign.value.precision
                           ELSE output_map[i].assign.port.precision, language)]

C6_Expected(language) ==
    "entity " \o name \o " is \n"
    \o (IF Len(arg_list) = 0 /\ Len(output_map) = 0
          THEN ""
          ELSE "port (\n  " \o C6_Joined(C6_PortLines(language)) \o "\n);")
    \o "\nend " \o name \o ";\n\n"

\* C6: get_declaration returns "entity N is \n<portBlock>\nend N;\n\n", the port
\* lines being "<name> : in <code>" per input in registration order, then
\* "<name> : out <code>" per output, joined with ";\n  ", and <portBlock> being
\* "port (\n  <joined>\n);" with at least one port and empty with none.
C6_DeclarationText ==
    ret.op = "get_declaration" => ret.val = C6_Expected(ret.language)

C6_Witness ==
    /\ ret.op = "get_declaration"
    /\ name = "adder"
    /\ ret.val = "entity adder is \nport (\n  a : in F32;\n  b : in F32;\n  s : out F32\n);\nend adder;\n\n"

\* C7 as stated: whenever a component descriptor exists, it records the direction
\* of every port the entity has now (also those registered after the first
\* request) and refers back to the entity.
C7_DescriptorHasEveryPort ==
    component_object # None =>
        /\ component_object.entity = "self"
        /\ \A i \in 1..Len(arg_list) :
              /\ arg_list[i] \in DOMAIN component_object.io_map
              /\ component_object.io_map[arg_list[i]] = Input
        /\ \A i \in 1..Len(output_map) :
              /\ get_output_port[i] \in DOMAIN component_object.io_map
              /\ component_object.io_map[get_output_port[i]] = Output

\* The expected call sequences of the two definition builders
C8_Headers ==
    << [op |-> "add_local_header", arg |-> "ieee.std_logic_1164.all"],
       [op |-> "add_local_header", arg |-> "ieee.std_logic_unsigned.all"],
       [op |-> "add_local_header", arg |-> "ieee.numeric_std.all"] >>

C8_Body(language) ==
    << [op |-> "emit", arg |-> get_declaration(language)],
       [op |-> "open_level", arg |-> ""],
       [op |-> "generate_expr", arg |-> "scheme", scheme |-> get_scheme],
       [op |-> "close_level", arg |-> ""] >>

C8_Trailer == << [op |-> "emit", arg |-> "end architecture;\n"] >>

\* C8 as stated: a completed get_definition has registered the headers, emitted
\* the declaration, opened a scope, generated the body, closed the scope and
\* appended the trailer "end architecture;\n", in this order, on a fresh code
\* object, with scopes balanced.
C8_DefinitionEndsWithTrailer ==
    (ret.op = "get_definition" /\ ~ret.raised) =>
        /\ ret.val.log = C8_Headers \o C8_Body(ret.language) \o C8_Trailer
        /\ ret.val.level = 0

\* C8 amended: a completed get_definition has, on a fresh code object, registered
\* the headers, emitted the declaration, opened a scope, generated the body and
\* closed the scope, and nothing more: it appends no trailer.  The trailer
\* "end architecture;\n" is appended by add_definition, which writes into the
\* caller's code object: declaration, "architecture rtl of N is\n", open scope,
\* body, close scope, trailer.  Scopes are balanced on every completed run.
C8_DefinitionSteps ==
    /\ (ret.op = "get_definition" /\ ~ret.raised) =>
          /\ ret.val.log = C8_Headers \o C8_Body(ret.language)
          /\ ret.val.level = 0
    /\ (ret.op = "add_definition" /\ ~ret.raised) =>
          /\ ret.val.log =
                ret.arg.log
                \o << [op |-> "emit", arg |-> get_declaration(ret.language)],
                      [op |-> "emit", arg |-> "architecture rtl of " \o name \o " is\n"],
                      [op |-> "open_level", arg |-> ""],
                      [op |-> "generate_expr", arg |-> "scheme", scheme |-> get_scheme],
                      [op |-> "close_level", arg |-> ""] >>
                \o C8_Trailer
          /\ ret.val.level = ret.arg.level

C8_Witness ==
    /\ ret.op = "get_definition"
    /\ ~ret.raised
    /\ Len(process_list) > 0
    /\ Len(output_map) > 0

\* C10 as stated: get_input_by_tag(t) returns an input exactly when an input with
\* tag t is in get_arg_list(), and then it returns an element of that list.
C10_ArgMapMatchesArgList ==
    \A t \in Tags :
        /\ (get_input_by_tag(t) # None) <=> (\E i \in 1..Len(get_arg_list) :
                                                 get_arg_list[i].tag = t)
        /\ (get_input_by_tag(t) # None) =>
              /\ get_input_by_tag(t).tag = t
              /\ \E i \in 1..Len(get_arg_list) : get_arg_list[i] = get_input_by_tag(t)


----------------------------------------------------------------------------
\* Properties of ComplexOperator and of the rv64 table

\* The statement that defines reference ref, if one was emitted
StatementOf(ref) == {k \in 1..Len(emitted) : emitted[k].dst = ref}

\* The references of a node's operands in the generation cache
OperandRefs(n) == [j \in 1..Len(arena[n].inputs) |-> memo[arena[n].inputs[j]]]

\* C2 as stated: when a rewrite template's modifier returns nothing and the
\* template has no fallback, the request fails with the rewrite-chain-exhausted
\* error, the engine is never asked to generate a missing node, no statement is
\* emitted for the node and no reference is returned.
C2_RewriteChainExhausted ==
    gen.op = "generate_expr" =>
        \A i \in 1..Len(gen.trace) :
            (/\ gen.trace[i].ev = "modifier"
             /\ gen.trace[i].result = NoNode
             /\ gen.trace[i].op.backup_operator = None)
            => (/\ ~gen.ok
                /\ gen.err = "RewriteChainExhausted"
                /\ gen.ref = None
                /\ gen.trace[i].node \notin DOMAIN memo
                /\ \A j \in 1..Len(gen.trace) :
                      gen.trace[j].ev = "generate" => gen.trace[j].node # NoNode)

\* C3: when a rewrite template's modifier returns a replacement node, generation
\* recurses on the replacement at once (the fallback is not used), the statement
\* behind the result is the one rendered for the replacement from the references
\* of the replacement's operands, and the cache entry of the original node is the
\* replacement's reference; a later request for a cached node returns the cached
\* reference without resolution, modifier call or emission.
C3_RewriteSubstitution ==
    gen.op = "generate_expr" =>
        /\ \A i \in 1..Len(gen.trace) :
              (gen.trace[i].ev = "modifier" /\ gen.trace[i].result # NoNode) =>
                  /\ i < Len(gen.trace)
                  /\ gen.trace[i + 1] = [ev |-> "generate", node |-> gen.trace[i].result]
                  /\ gen.ok => gen.trace[i].result \in DOMAIN memo
                  /\ gen.trace[i].result \in DOMAIN memo =>
                        /\ gen.trace[i].node \in DOMAIN memo
                        /\ memo[gen.trace[i].node] = memo[gen.trace[i].result]
                        /\ \E k \in StatementOf(memo[gen.trace[i].node]) :
                              /\ emitted[k].fn = "conv"
                              /\ emitted[k].precision = arena[gen.trace[i].result].precision
                              /\ emitted[k].args = OperandRefs(gen.trace[i].result)
        /\ gen.hit =>
              /\ gen.trace = << [ev |-> "generate", node |-> gen.node] >>
              /\ gen.ok /\ gen.ref = memo[gen.node]
              /\ Len(emitted) = gen.emittedBefore
              /\ Len(arena) = gen.arenaBefore

C3_Witness ==
    /\ gen.op = "generate_expr"
    /\ gen.hit
    /\ arena[gen.node].kind = "RwLowerBackup"
    /\ \E k \in StatementOf(memo[gen.node]) : emitted[k].fn = "conv"

\* C4: when a rewrite template's modifier returns nothing and a fallback is
\* present, the very next call is the fallback's generate_expr on the original
\* node with the operand references the rewrite template was given (no resolution
\* and no engine call in between), also when the fallback is itself a rewrite;
\* a plain fallback's statement is the result recorded for the node.
C4_FallbackDelegation ==
    gen.op = "generate_expr" =>
        \A i \in 1..Len(gen.trace) :
            (/\ gen.trace[i].ev = "modifier"
             /\ gen.trace[i].result = NoNode
             /\ gen.trace[i].op.backup_operator # None)
            => (/\ i > 1 /\ i < Len(gen.trace)
                /\ gen.trace[i - 1].ev = "operator"
                /\ gen.trace[i - 1].op = gen.trace[i].op
                /\ gen.trace[i + 1] =
                      [ev |-> "operator", op |-> gen.trace[i].op.backup_operator,
                       node |-> gen.trace[i].node, args |-> gen.trace[i - 1].args]
                /\ gen.trace[i].op.backup_operator.type = "DirectOperator" =>
                      /\ gen.trace[i].node \in DOMAIN memo
                      /\ \E k \in StatementOf(memo[gen.trace[i].node]) :
                            /\ emitted[k].fn = gen.trace[i].op.backup_operator.fn
                            /\ emitted[k].args = gen.trace[i - 1].args
                            /\ emitted[k].args = OperandRefs(gen.trace[i].node))

C4_Witness ==
    /\ gen.op = "generate_expr"
    /\ gen.ok /\ ~gen.hit
    /\ arena[gen.node].kind = "RwNoneChain"
    /\ \E k \in StatementOf(gen.ref) : emitted[k].fn = "backup_fn"

\* The nodes of the sub-DAG rooted at n
RECURSIVE Reach(_)
Reach(n) ==
    LET UnionOf(i) == Reach(arena[n].inputs[i])
    IN {n} \cup UNION {UnionOf(i) : i \in 1..Len(arena[n].inputs)}

\* The rv64 lowering of a binary64 -> binary64 NearestInteger node m, seen in the
\* trace at index i (resolution) and i + 2 (modifier call)
C9_Lowered(i) ==
    LET m == gen.trace[i].node
        r == gen.trace[i + 2].result
        inner == arena[r].inputs[1]
    IN /\ gen.trace[i].op =
             ComplexOperator(lowerConversion("ML_Int64", "ML_Binary64"), None)
       /\ gen.trace[i + 2].ev = "modifier" /\ gen.trace[i + 2].node = m
       /\ r # NoNode /\ r > gen.arenaBefore /\ inner > gen.arenaBefore /\ r # inner
       /\ arena[r] = Conversion(inner, "ML_Binary64")
       /\ arena[inner] = Conversion(arena[m].inputs[1], "ML_Int64")
       /\ gen.ok =>
             \E k \in StatementOf(memo[m]), k2 \in 1..Len(emitted) :
                /\ emitted[k].fn = "conv" /\ emitted[k].precision = "ML_Binary64"
                /\ emitted[k].args = << emitted[k2].dst >>
                /\ emitted[k2].fn = "conv" /\ emitted[k2].precision = "ML_Int64"
                /\ emitted[k2].args = << memo[arena[m].inputs[1]] >>

C9_IsRound64(i) ==
    /\ gen.trace[i].ev = "resolve"
    /\ arena[gen.trace[i].node].kind = "NearestInteger"
    /\ arena[gen.trace[i].node].specifier = "None"
    /\ Signature(arena, gen.trace[i].node) = <<"ML_Binary64", "ML_Binary64">>

\* C9 as stated: under the rv64 table a binary64 -> binary64 NearestInteger node
\* resolves to the rewrite through int64, whose replacement is Conversion to
\* binary64 of Conversion to int64 of the node's operand 0, generated as two
\* nested conversions, and the replacement contains no NearestInteger node.
C9_NoNearestIntegerInReplacement ==
    gen.op = "generate_expr" =>
        \A i \in 1..Len(gen.trace) :
            C9_IsRound64(i) =>
                /\ C9_Lowered(i)
                /\ \A x \in Reach(gen.trace[i + 2].result) :
                      arena[x].kind # "NearestInteger"

\* C9 amended: as above, except that only the two nodes the modifier creates are
\* known not to be NearestInteger nodes; everything else in the replacement is
\* the sub-DAG of the original node's operand 0, which may hold NearestInteger
\* nodes.
C9_LoweringThroughInt64 ==
    gen.op = "generate_expr" =>
        \A i \in 1..Len(gen.trace) :
            C9_IsRound64(i) =>
                /\ C9_Lowered(i)
                /\ LET r == gen.trace[i + 2].result
                       op0 == arena[gen.trace[i].node].inputs[1]
                   IN /\ arena[r].kind = "Conversion"
                      /\ arena[arena[r].inputs[1]].kind = "Conversion"
                      /\ Reach(r) = {r, arena[r].inputs[1]} \cup Reach(op0)

C9_Witness ==
    /\ gen.op = "generate_expr"
    /\ gen.ok /\ ~gen.hit
    /\ arena[gen.node].kind = "NearestInteger"
    /\ arena[gen.node].precision = "ML_Binary64"
    /\ arena[arena[gen.node].inputs[1]].kind = "Variable"
    /\ Len(emitted) = 2

====
